---- MODULE Spec2Model ----
(***************************************************************************)
(* A model of address-lookup/documentation/postcode_flow_diagram.py:       *)
(* build_diagram draws four swimlanes, then 23 hard-coded sequence steps   *)
(* (arrows and caption boxes), each at the next y of a literal list of 24  *)
(* vertical positions, and finally saves the figure and prints the path.   *)
(*                                                                         *)
(* Coordinates are the source's decimals times 10000 (0.96 is 9600), so    *)
(* that midpoints and the 0.006 caption offset are exact integers.         *)
(* A string is a sequence of Unicode code points (len() in Python counts   *)
(* code points); the captions hold U+2192 and U+2022, which are neither    *)
(* whitespace nor word characters.                                         *)
(***************************************************************************)
EXTENDS Integers, Sequences, FiniteSets, TLC

VARIABLES
    pc,        \* position in build_diagram (or in a direct call of a helper)
    wrap,      \* the wrap argument (caption width in characters)
    output,    \* the output argument (path of the PDF)
    lanes,     \* the lanes list of line 34
    laneIdx,   \* number of iterations done by the for loop of line 42
    canvas,    \* the artists added to ax so far, in drawing order
    ysList,    \* the literal list handed to iter() on line 63
    ys,        \* what the iterator ys has not yet returned
    y,         \* the local y
    stepIdx,   \* number of sequence-step statements (lines 73-109) completed
    pulled,    \* the values returned by next(ys) so far, in order
    files,     \* paths written by savefig
    stdout,    \* lines printed
    err,       \* the exception that ended the run, "none" while there is none
    call       \* arguments of a direct call of box_text / arrow

vars == <<pc, wrap, output, lanes, laneIdx, canvas, ysList, ys, y, stepIdx,
          pulled, files, stdout, err, call>>

----------------------------------------------------------------------------
(* textwrap.fill(text, width=wrap) with TextWrapper's defaults:            *)
(* expand_tabs, replace_whitespace, drop_whitespace, break_long_words,     *)
(* break_on_hyphens, tabsize 8, no indent, no max_lines.                   *)

TAB == 9
NL == 10
CR == 13
SP == 32
HYPHEN == 45
TabSize == 8

\* textwrap._whitespace = '\t\n\x0b\x0c\r '
IsWs(c) == c \in {9, 10, 11, 12, 13, 32}

\* str.isspace(), for code points below 256 (what chunk.strip() removes)
IsSpace(c) == c \in (9..13) \cup (28..32) \cup {133, 160}

\* \d, \w and [^\d\W] of the re module, for ASCII code points
IsDigit(c) == c \in 48..57
IsWordChar(c) == c \in (48..57) \cup (65..90) \cup (97..122) \cup {95}
IsLetter(c) == IsWordChar(c) /\ ~IsDigit(c)

\* word_punct = r'[\w!"\'&.,?]'
IsWordPunct(c) == IsWordChar(c) \/ c \in {33, 34, 39, 38, 46, 44, 63}

\* t[i], or 0 (matches no class) outside the string
At(t, i) == IF i >= 1 /\ i <= Len(t) THEN t[i] ELSE 0

\* ''.join(ss[lo..hi]), halving the range
RECURSIVE ConcatRange(_, _, _)
ConcatRange(ss, lo, hi) ==
    IF lo > hi THEN <<>>
    ELSE IF lo = hi THEN ss[lo]
    ELSE LET mid == (lo + hi) \div 2
         IN  ConcatRange(ss, lo, mid) \o ConcatRange(ss, mid + 1, hi)

Concat(ss) == ConcatRange(ss, 1, Len(ss))

\* sep.join(ss)
Join(ss, sep) ==
    Concat([i \in 1..Len(ss) |-> IF i = 1 THEN ss[i] ELSE sep \o ss[i]])

Min(S) == CHOOSE m \in S : \A n \in S : m <= n
Max(S) == CHOOSE m \in S : \A n \in S : m >= n

Spaces(n) == [i \in 1..n |-> SP]

\* str.expandtabs(8): a tab becomes the spaces up to the next multiple of 8
\* columns; \n and \r start a new column count.  The column modulo 8 at i
\* is the number of characters since the last tab, \n or \r before i.
ColumnMod(t, i) ==
    LET resets == {j \in 1..(i - 1) : t[j] \in {TAB, NL, CR}}
        last == IF resets = {} THEN 0 ELSE Max(resets)
    IN  (i - 1 - last) % TabSize

ExpandTabs(t) ==
    Concat([i \in 1..Len(t) |->
               IF t[i] = TAB THEN Spaces(TabSize - ColumnMod(t, i))
               ELSE <<t[i]>>])

\* TextWrapper._munge_whitespace: expand tabs, then every character of
\* _whitespace becomes a space
MungeWhitespace(t) ==
    LET e == ExpandTabs(t)
    IN  [i \in 1..Len(e) |-> IF IsWs(e[i]) THEN SP ELSE e[i]]

\* last index of the run of whitespace (of hyphens) that starts at p
WsRunEnd(t, p) ==
    Min({q \in (p + 1)..(Len(t) + 1) : q > Len(t) \/ ~IsWs(At(t, q))}) - 1

HyphenRunEnd(t, p) ==
    Min({q \in (p + 1)..(Len(t) + 1) : q > Len(t) \/ At(t, q) # HYPHEN}) - 1

\* -{2,}(?=\w) matches at q
DashesThenWord(t, q) ==
    /\ At(t, q) = HYPHEN
    /\ HyphenRunEnd(t, q) >= q + 1
    /\ IsWordChar(At(t, HyphenRunEnd(t, q) + 1))

\* wordsep_re, second alternative: (?<=[\w!"'&.,?]) -{2,} (?=\w) at p
EmDashAt(t, p) == IsWordPunct(At(t, p - 1)) /\ DashesThenWord(t, p)

\* the hyphen at q ends a chunk:
\*   -(?: (?<=[^\d\W]{2}-) | (?<=[^\d\W]-[^\d\W]-)) (?= [^\d\W] -? [^\d\W])
HyphenBreakAt(t, q) ==
    /\ At(t, q) = HYPHEN
    /\ \/ IsLetter(At(t, q - 2)) /\ IsLetter(At(t, q - 1))
       \/ /\ IsLetter(At(t, q - 3)) /\ At(t, q - 2) = HYPHEN
          /\ IsLetter(At(t, q - 1))
    /\ IsLetter(At(t, q + 1))
    /\ \/ IsLetter(At(t, q + 2))
       \/ At(t, q + 2) = HYPHEN /\ IsLetter(At(t, q + 3))

\* wordsep_re, third alternative: the lazy [^ws]+? has taken t[p..q-1] and
\* stops at the first q where one of the three endings matches
WordStopAt(t, q) ==
    \/ HyphenBreakAt(t, q)
    \/ q > Len(t)
    \/ IsWs(At(t, q))
    \/ IsWordPunct(At(t, q - 1)) /\ DashesThenWord(t, q)

\* the last index of the chunk: a hyphenated ending takes the hyphen too
WordEnd(t, q0) ==
    LET q == Min({r \in q0..(Len(t) + 1) : WordStopAt(t, r)})
    IN  IF HyphenBreakAt(t, q) THEN q ELSE q - 1

\* last index of the chunk wordsep_re matches at p
ChunkEnd(t, p) ==
    IF IsWs(t[p]) THEN WsRunEnd(t, p)
    ELSE IF EmDashAt(t, p) THEN HyphenRunEnd(t, p)
    ELSE WordEnd(t, p + 1)

\* TextWrapper._split: wordsep_re.split(text) without the empty strings
RECURSIVE SplitFrom(_, _)
SplitFrom(t, p) ==
    IF p > Len(t) THEN <<>>
    ELSE LET e == ChunkEnd(t, p)
         IN  <<SubSeq(t, p, e)>> \o SplitFrom(t, e + 1)

SplitChunks(t) == SplitFrom(t, 1)

\* chunk.strip() == ''
IsBlank(chunk) == \A i \in 1..Len(chunk) : IsSpace(chunk[i])

RECURSIVE SumLen(_)
SumLen(ss) == IF ss = <<>> THEN 0 ELSE Len(Head(ss)) + SumLen(Tail(ss))

\* TakeFit with the comparison off by one: a chunk is taken when it ends one
\* character past the width
RECURSIVE TakeFitOffByOne(_, _, _)
TakeFitOffByOne(chunks, cur_line, width) ==
    IF chunks # <<>> /\ SumLen(cur_line) + Len(Head(chunks)) <= width + 1
    THEN TakeFitOffByOne(Tail(chunks), Append(cur_line, Head(chunks)), width)
    ELSE [line |-> cur_line, rest |-> chunks]

\* the inner while loop of _wrap_chunks: chunks moved to the line while they fit
RECURSIVE TakeFit(_, _, _)
TakeFit(chunks, cur_line, width) ==
    IF chunks # <<>> /\ SumLen(cur_line) + Len(Head(chunks)) <= width
    THEN TakeFit(Tail(chunks), Append(cur_line, Head(chunks)), width)
    ELSE [line |-> cur_line, rest |-> chunks]

\* chunk.rfind('-', 0, space_left), as a 1-based index (0: not found)
RECURSIVE RFindHyphen(_, _)
RFindHyphen(chunk, n) ==
    IF n < 1 THEN 0
    ELSE IF n <= Len(chunk) /\ chunk[n] = HYPHEN THEN n
    ELSE RFindHyphen(chunk, n - 1)

\* TextWrapper._handle_long_word with break_long_words and break_on_hyphens:
\* the number of characters of chunk that go on the current line
LongWordEnd(chunk, space_left) ==
    LET h == RFindHyphen(chunk, space_left)
    IN  IF Len(chunk) > space_left /\ h > 1
           /\ \E i \in 1..(h - 1) : chunk[i] # HYPHEN
        THEN h
        ELSE space_left

HandleLongWord(st, width) ==
    LET chunk == Head(st.rest)
        space_left == width - SumLen(st.line)
        end == LongWordEnd(chunk, space_left)
    IN  [line |-> Append(st.line, SubSeq(chunk, 1, end)),
         rest |-> <<SubSeq(chunk, end + 1, Len(chunk))>> \o Tail(st.rest)]

\* TextWrapper._wrap_chunks for width > 0: lines is the list built so far
RECURSIVE WrapChunks(_, _, _)
WrapChunks(chunks, lines, width) ==
    IF chunks = <<>> THEN lines
    ELSE LET c1 == IF IsBlank(Head(chunks)) /\ lines # <<>>
                   THEN Tail(chunks) ELSE chunks
             s1 == TakeFit(c1, <<>>, width)
             s2 == IF s1.rest # <<>> /\ Len(Head(s1.rest)) > width
                   THEN HandleLongWord(s1, width) ELSE s1
             l3 == IF s2.line # <<>> /\ IsBlank(s2.line[Len(s2.line)])
                   THEN SubSeq(s2.line, 1, Len(s2.line) - 1) ELSE s2.line
         IN  WrapChunks(s2.rest,
                        IF l3 # <<>> THEN Append(lines, Concat(l3)) ELSE lines,
                        width)

\* TextWrapper.wrap
Wrap(text, width) == WrapChunks(SplitChunks(MungeWhitespace(text)), <<>>, width)

\* _wrap_chunks raises ValueError("invalid width ...") when width <= 0
FillRaises(width) == width <= 0

\* textwrap.fill: "\n".join(wrap(text))
Fill(text, width) == Join(Wrap(text, width), <<NL>>)

----------------------------------------------------------------------------
(* build_diagram: data                                                     *)

\* lane x positions (lines 29-32), times 10000
x_client == 1000
x_edge == 3700
x_worker == 6500
x_os == 9000

\* Lanes without its last entry: the steps still use x_os
LanesWithoutOS == <<
    [x |-> x_client, label |-> <<70, 114, 111, 110, 116, 101, 110, 100>>],
    [x |-> x_edge, label |-> <<67, 108, 111, 117, 100, 102, 108, 97, 114, 101,
                               32, 69, 100, 103, 101>>],
    [x |-> x_worker, label |-> <<87, 111, 114, 107, 101, 114, 32, 40, 69, 100,
                                 103, 101, 41>>]
    >>

\* the lanes list (lines 34-39); labels as code points
Lanes == <<
    [x |-> x_client, label |-> <<70, 114, 111, 110, 116, 101, 110, 100>>],
    [x |-> x_edge, label |-> <<67, 108, 111, 117, 100, 102, 108, 97, 114, 101,
                               32, 69, 100, 103, 101>>],
    [x |-> x_worker, label |-> <<87, 111, 114, 107, 101, 114, 32, 40, 69, 100,
                                 103, 101, 41>>],
    [x |-> x_os, label |-> <<79, 83, 32, 80, 108, 97, 99, 101, 115, 32, 65,
                             80, 73>>]
    >>

\* the list of vertical positions (lines 63-69), times 10000
YS == <<9600, 9300, 9000, 8700, 8400,
        8000, 7600, 7200, 6800, 6400,
        6000, 5600, 5200, 4800, 4400,
        4000, 3600, 3200, 2800, 2400,
        2000, 1600, 1200, 800>>

\* extent of a lane guide-line and height of a lane title (lines 43-44)
LaneBottom == 200
LaneTop == 9800
TitleY == 9900

\* the caption of an arrow sits this far below the line (line 60: y - 0.006)
CaptionDrop == 60

\* the (kind, first x, second x) of the calls of lines 73-109, in order;
\* box_text has one x, given twice
StepCalls == <<
    <<"arrow", x_client, x_edge>>,   \* line 73
    <<"box_text", x_edge, x_edge>>,   \* line 76
    <<"arrow", x_edge, x_client>>,   \* line 79
    <<"box_text", x_edge, x_edge>>,   \* line 82
    <<"arrow", x_edge, x_client>>,   \* line 85
    <<"arrow", x_edge, x_worker>>,   \* line 88
    <<"arrow", x_client, x_worker>>,   \* line 91
    <<"box_text", x_worker, x_worker>>,   \* line 92
    <<"box_text", x_worker, x_worker>>,   \* line 93
    <<"arrow", x_worker, x_edge>>,   \* line 94
    <<"arrow", x_edge, x_client>>,   \* line 95
    <<"box_text", x_worker, x_worker>>,   \* line 96
    <<"arrow", x_worker, x_os>>,   \* line 97
    <<"arrow", x_os, x_worker>>,   \* line 98
    <<"box_text", x_worker, x_worker>>,   \* line 99
    <<"arrow", x_worker, x_edge>>,   \* line 100
    <<"arrow", x_edge, x_client>>,   \* line 101
    <<"arrow", x_os, x_worker>>,   \* line 104
    <<"arrow", x_worker, x_edge>>,   \* line 105
    <<"arrow", x_edge, x_client>>,   \* line 106
    <<"arrow", x_worker, x_os>>,   \* line 107
    <<"arrow", x_worker, x_edge>>,   \* line 108
    <<"arrow", x_edge, x_client>>    \* line 109
    >>

\* the caption strings of the same calls, as code points
Captions == <<
    \* line 73: "GET /api/address-lookup?pc=CB97XU&dataset=LPI&maxresults=100"
    <<71, 69, 84, 32, 47, 97, 112, 105, 47, 97, 100, 100, 114, 101, 115, 115,
      45, 108, 111, 111, 107, 117, 112, 63, 112, 99, 61, 67, 66, 57, 55, 88,
      85, 38, 100, 97, 116, 97, 115, 101, 116, 61, 76, 80, 73, 38, 109, 97,
      120, 114, 101, 115, 117, 108, 116, 115, 61, 49, 48, 48>>,
    \* line 76: "WAF / Bot evaluation\u000aSkip via custom rule when CF-Access headers present"
    <<87, 65, 70, 32, 47, 32, 66, 111, 116, 32, 101, 118, 97, 108, 117, 97,
      116, 105, 111, 110, 10, 83, 107, 105, 112, 32, 118, 105, 97, 32, 99, 117,
      115, 116, 111, 109, 32, 114, 117, 108, 101, 32, 119, 104, 101, 110, 32, 67,
      70, 45, 65, 99, 99, 101, 115, 115, 32, 104, 101, 97, 100, 101, 114, 115,
      32, 112, 114, 101, 115, 101, 110, 116>>,
    \* line 79: "If blocked \u2192 403 Cloudflare challenge page"
    <<73, 102, 32, 98, 108, 111, 99, 107, 101, 100, 32, 8594, 32, 52, 48, 51,
      32, 67, 108, 111, 117, 100, 102, 108, 97, 114, 101, 32, 99, 104, 97, 108,
      108, 101, 110, 103, 101, 32, 112, 97, 103, 101>>,
    \* line 82: "Access policy: Action = Service Auth\u000aValidate CF-Access-Client-Id/Secret (service token)"
    <<65, 99, 99, 101, 115, 115, 32, 112, 111, 108, 105, 99, 121, 58, 32, 65,
      99, 116, 105, 111, 110, 32, 61, 32, 83, 101, 114, 118, 105, 99, 101, 32,
      65, 117, 116, 104, 10, 86, 97, 108, 105, 100, 97, 116, 101, 32, 67, 70,
      45, 65, 99, 99, 101, 115, 115, 45, 67, 108, 105, 101, 110, 116, 45, 73,
      100, 47, 83, 101, 99, 114, 101, 116, 32, 40, 115, 101, 114, 118, 105, 99,
      101, 32, 116, 111, 107, 101, 110, 41>>,
    \* line 85: "If missing/invalid \u2192 302 to /cdn-cgi/access/login"
    <<73, 102, 32, 109, 105, 115, 115, 105, 110, 103, 47, 105, 110, 118, 97, 108,
      105, 100, 32, 8594, 32, 51, 48, 50, 32, 116, 111, 32, 47, 99, 100, 110,
      45, 99, 103, 105, 47, 97, 99, 99, 101, 115, 115, 47, 108, 111, 103, 105,
      110>>,
    \* line 88: "Service Auth OK \u2192 Route match /api/address-lookup/\u002a (invoke Worker)"
    <<83, 101, 114, 118, 105, 99, 101, 32, 65, 117, 116, 104, 32, 79, 75, 32,
      8594, 32, 82, 111, 117, 116, 101, 32, 109, 97, 116, 99, 104, 32, 47, 97,
      112, 105, 47, 97, 100, 100, 114, 101, 115, 115, 45, 108, 111, 111, 107, 117,
      112, 47, 42, 32, 40, 105, 110, 118, 111, 107, 101, 32, 87, 111, 114, 107,
      101, 114, 41>>,
    \* line 91: "OPTIONS preflight (CORS) \u2192 204 No Content"
    <<79, 80, 84, 73, 79, 78, 83, 32, 112, 114, 101, 102, 108, 105, 103, 104,
      116, 32, 40, 67, 79, 82, 83, 41, 32, 8594, 32, 50, 48, 52, 32, 78,
      111, 32, 67, 111, 110, 116, 101, 110, 116>>,
    \* line 92: "Validate OS_PLACES_KEY \u2022 Parse + normalise postcode \u2022 Strict regex validation"
    <<86, 97, 108, 105, 100, 97, 116, 101, 32, 79, 83, 95, 80, 76, 65, 67,
      69, 83, 95, 75, 69, 89, 32, 8226, 32, 80, 97, 114, 115, 101, 32, 43,
      32, 110, 111, 114, 109, 97, 108, 105, 115, 101, 32, 112, 111, 115, 116, 99,
      111, 100, 101, 32, 8226, 32, 83, 116, 114, 105, 99, 116, 32, 114, 101, 103,
      101, 120, 32, 118, 97, 108, 105, 100, 97, 116, 105, 111, 110>>,
    \* line 93: "Build cache key (pc/dataset/max + allow-list hash)\u000aCanonicalise path with trailing '/'"
    <<66, 117, 105, 108, 100, 32, 99, 97, 99, 104, 101, 32, 107, 101, 121, 32,
      40, 112, 99, 47, 100, 97, 116, 97, 115, 101, 116, 47, 109, 97, 120, 32,
      43, 32, 97, 108, 108, 111, 119, 45, 108, 105, 115, 116, 32, 104, 97, 115,
      104, 41, 10, 67, 97, 110, 111, 110, 105, 99, 97, 108, 105, 115, 101, 32,
      112, 97, 116, 104, 32, 119, 105, 116, 104, 32, 116, 114, 97, 105, 108, 105,
      110, 103, 32, 39, 47, 39>>,
    \* line 94: "Edge cache lookup (caches.default.match)"
    <<69, 100, 103, 101, 32, 99, 97, 99, 104, 101, 32, 108, 111, 111, 107, 117,
      112, 32, 40, 99, 97, 99, 104, 101, 115, 46, 100, 101, 102, 97, 117, 108,
      116, 46, 109, 97, 116, 99, 104, 41>>,
    \* line 95: "If HIT \u2192 200 JSON (filtered)\u000aHeaders: x-edge-cache: HIT, x-allowlist-hash, server-timing"
    <<73, 102, 32, 72, 73, 84, 32, 8594, 32, 50, 48, 48, 32, 74, 83, 79,
      78, 32, 40, 102, 105, 108, 116, 101, 114, 101, 100, 41, 10, 72, 101, 97,
      100, 101, 114, 115, 58, 32, 120, 45, 101, 100, 103, 101, 45, 99, 97, 99,
      104, 101, 58, 32, 72, 73, 84, 44, 32, 120, 45, 97, 108, 108, 111, 119,
      108, 105, 115, 116, 45, 104, 97, 115, 104, 44, 32, 115, 101, 114, 118, 101,
      114, 45, 116, 105, 109, 105, 110, 103>>,
    \* line 96: "MISS \u2192 Build OS URL\u000afq: LOGICAL_STATUS_CODE:1; LPI_LOGICAL_STATUS_CODE:1\u000apostal=1 \u2192 POSTAL_ADDRESS_CODE:(D L)"
    <<77, 73, 83, 83, 32, 8594, 32, 66, 117, 105, 108, 100, 32, 79, 83, 32,
      85, 82, 76, 10, 102, 113, 58, 32, 76, 79, 71, 73, 67, 65, 76, 95,
      83, 84, 65, 84, 85, 83, 95, 67, 79, 68, 69, 58, 49, 59, 32, 76,
      80, 73, 95, 76, 79, 71, 73, 67, 65, 76, 95, 83, 84, 65, 84, 85,
      83, 95, 67, 79, 68, 69, 58, 49, 10, 112, 111, 115, 116, 97, 108, 61,
      49, 32, 8594, 32, 80, 79, 83, 84, 65, 76, 95, 65, 68, 68, 82, 69,
      83, 83, 95, 67, 79, 68, 69, 58, 40, 68, 32, 76, 41>>,
    \* line 97: "GET /search/places/v1/postcode"
    <<71, 69, 84, 32, 47, 115, 101, 97, 114, 99, 104, 47, 112, 108, 97, 99,
      101, 115, 47, 118, 49, 47, 112, 111, 115, 116, 99, 111, 100, 101>>,
    \* line 98: "200 OK \u2192 Full JSON payload"
    <<50, 48, 48, 32, 79, 75, 32, 8594, 32, 70, 117, 108, 108, 32, 74, 83,
      79, 78, 32, 112, 97, 121, 108, 111, 97, 100>>,
    \* line 99: "Filter allow-list (CLASSIFICATION_CODE)\u000aProject to Slim (LPI/DPA) \u2022 Add LSB_PROPERTY_TYPE"
    <<70, 105, 108, 116, 101, 114, 32, 97, 108, 108, 111, 119, 45, 108, 105, 115,
      116, 32, 40, 67, 76, 65, 83, 83, 73, 70, 73, 67, 65, 84, 73, 79,
      78, 95, 67, 79, 68, 69, 41, 10, 80, 114, 111, 106, 101, 99, 116, 32,
      116, 111, 32, 83, 108, 105, 109, 32, 40, 76, 80, 73, 47, 68, 80, 65,
      41, 32, 8226, 32, 65, 100, 100, 32, 76, 83, 66, 95, 80, 82, 79, 80,
      69, 82, 84, 89, 95, 84, 89, 80, 69>>,
    \* line 100: "Store at edge (caches.default.put)"
    <<83, 116, 111, 114, 101, 32, 97, 116, 32, 101, 100, 103, 101, 32, 40, 99,
      97, 99, 104, 101, 115, 46, 100, 101, 102, 97, 117, 108, 116, 46, 112, 117,
      116, 41>>,
    \* line 101: "200 JSON (filtered, slim)\u000aHeaders: x-edge-cache: MISS; cache-control: s-maxage; server-timing"
    <<50, 48, 48, 32, 74, 83, 79, 78, 32, 40, 102, 105, 108, 116, 101, 114,
      101, 100, 44, 32, 115, 108, 105, 109, 41, 10, 72, 101, 97, 100, 101, 114,
      115, 58, 32, 120, 45, 101, 100, 103, 101, 45, 99, 97, 99, 104, 101, 58,
      32, 77, 73, 83, 83, 59, 32, 99, 97, 99, 104, 101, 45, 99, 111, 110,
      116, 114, 111, 108, 58, 32, 115, 45, 109, 97, 120, 97, 103, 101, 59, 32,
      115, 101, 114, 118, 101, 114, 45, 116, 105, 109, 105, 110, 103>>,
    \* line 104: "401/403 (auth error)"
    <<52, 48, 49, 47, 52, 48, 51, 32, 40, 97, 117, 116, 104, 32, 101, 114,
      114, 111, 114, 41>>,
    \* line 105: "Try STALE from edge cache"
    <<84, 114, 121, 32, 83, 84, 65, 76, 69, 32, 102, 114, 111, 109, 32, 101,
      100, 103, 101, 32, 99, 97, 99, 104, 101>>,
    \* line 106: "Serve STALE 200 or 502 os_auth_failed"
    <<83, 101, 114, 118, 101, 32, 83, 84, 65, 76, 69, 32, 50, 48, 48, 32,
      111, 114, 32, 53, 48, 50, 32, 111, 115, 95, 97, 117, 116, 104, 95, 102,
      97, 105, 108, 101, 100>>,
    \* line 107: "Timeout/Other error on fetch"
    <<84, 105, 109, 101, 111, 117, 116, 47, 79, 116, 104, 101, 114, 32, 101, 114,
      114, 111, 114, 32, 111, 110, 32, 102, 101, 116, 99, 104>>,
    \* line 108: "Try STALE from edge cache"
    <<84, 114, 121, 32, 83, 84, 65, 76, 69, 32, 102, 114, 111, 109, 32, 101,
      100, 103, 101, 32, 99, 97, 99, 104, 101>>,
    \* line 109: "Serve STALE 200 or 504 os_timeout"
    <<83, 101, 114, 118, 101, 32, 83, 84, 65, 76, 69, 32, 50, 48, 48, 32,
      111, 114, 32, 53, 48, 52, 32, 111, 115, 95, 116, 105, 109, 101, 111, 117,
      116>>
    >>

\* the sequence steps of lines 73-109 as data
Steps ==
    [i \in 1..Len(StepCalls) |->
        [kind |-> StepCalls[i][1], x0 |-> StepCalls[i][2],
         x1 |-> StepCalls[i][3], text |-> Captions[i]]]

----------------------------------------------------------------------------
(* build_diagram: helpers                                                  *)

\* an artist added to the axes: a segment or point (from, to) and a string
Artist(kind, from, to, s) == [kind |-> kind, from |-> from, to |-> to, s |-> s]

\* one iteration of the loop of lines 42-44: the dashed guide-line, the title
DrawLaneArtists(lane) ==
    <<Artist("plot", <<lane.x, LaneBottom>>, <<lane.x, LaneTop>>, <<>>),
      Artist("title", <<lane.x, TitleY>>, <<lane.x, TitleY>>, lane.label)>>

\* box_text (lines 46-51): the wrapped text in a box centred at (x, yy);
\* when fill raises, nothing is added
BoxText(cv, x, yy, text, w) ==
    IF FillRaises(w) THEN cv
    ELSE Append(cv, Artist("box", <<x, yy>>, <<x, yy>>, Fill(text, w)))

\* Arrow with the caption at x0 + x1 / 2.0 (the parentheses of line 60 lost)
ArrowLostParens(cv, x0, x1, yy, text, w) ==
    BoxText(Append(cv, Artist("annotate", <<x0, yy>>, <<x1, yy>>, <<>>)),
            x0 + x1 \div 2, yy - CaptionDrop, text, w)

\* arrow (lines 53-60): annotate draws the line from xytext = (x0, yy) to
\* xy = (x1, yy), the arrowhead at xy; then the caption box.  Lane sums are
\* even, so (x0 + x1) / 2.0 is exact.
Arrow(cv, x0, x1, yy, text, w) ==
    BoxText(Append(cv, Artist("annotate", <<x0, yy>>, <<x1, yy>>, <<>>)),
            (x0 + x1) \div 2, yy - CaptionDrop, text, w)

\* Render drawing a line for a box_text step as well
RenderAllAsArrows(cv, s, yy, w) == Arrow(cv, s.x0, s.x1, yy, s.text, w)

\* the call of one sequence step at height yy
Render(cv, s, yy, w) ==
    IF s.kind = "arrow" THEN Arrow(cv, s.x0, s.x1, yy, s.text, w)
    ELSE BoxText(cv, s.x0, yy, s.text, w)

\* Iter over a list that lost its last entry, or its first
IterDropLast(list) == SubSeq(list, 1, Len(list) - 1)
IterDropFirst(list) == SubSeq(list, 2, Len(list))

\* IterAdvance that does not move, or that never gives up the last value
IterStuck(it) == it
IterKeepLast(it) == IF Len(it) = 1 THEN it ELSE Tail(it)

\* iter(list) and next(it): the iterator is what it has not yet returned
Iter(list) == list
IterExhausted(it) == it = <<>>
IterValue(it) == Head(it)
IterAdvance(it) == Tail(it)

----------------------------------------------------------------------------
(* build_diagram: the run                                                  *)

\* values of --wrap and --output tried
WrapChoices == {0, 10, 30, 50}
OutputChoices == {"postcode-flow.pdf", "out.pdf"}

Init ==
    /\ pc = "start"
    /\ wrap \in WrapChoices
    /\ output \in OutputChoices
    /\ lanes = <<>>
    /\ laneIdx = 0
    /\ canvas = <<>>
    /\ ysList = YS
    /\ ys = <<>>
    /\ y = 0
    /\ stepIdx = 0
    /\ pulled = <<>>
    /\ files = {}
    /\ stdout = <<>>
    /\ err = "none"
    /\ call = <<>>

\* lines 25-39: the figure, the lane positions and the lanes list
CreateFigure ==
    /\ pc = "start"
    /\ lanes' = Lanes
    /\ pc' = IF Lanes = <<>> THEN "slots" ELSE "lanes"
    /\ UNCHANGED <<wrap, output, laneIdx, canvas, ysList, ys, y, stepIdx,
                   pulled, files, stdout, err, call>>

\* lines 42-44: one iteration of the loop over lanes
DrawLane ==
    /\ pc = "lanes"
    /\ laneIdx < Len(lanes)
    /\ canvas' = canvas \o DrawLaneArtists(lanes[laneIdx + 1])
    /\ laneIdx' = laneIdx + 1
    /\ pc' = IF laneIdx + 1 = Len(lanes) THEN "slots" ELSE "lanes"
    /\ UNCHANGED <<wrap, output, lanes, ysList, ys, y, stepIdx, pulled,
                   files, stdout, err, call>>

\* lines 63-69: ys = iter([...])
MakeSlots ==
    /\ pc = "slots"
    /\ ys' = Iter(ysList)
    /\ pc' = "steps"
    /\ UNCHANGED <<wrap, output, lanes, laneIdx, canvas, ysList, y, stepIdx,
                   pulled, files, stdout, err, call>>

\* one statement of lines 73-109: y = next(ys); arrow(...) or box_text(...).
\* next raises StopIteration on an exhausted iterator, before anything is
\* drawn; fill raises ValueError after annotate has drawn the line.
Step ==
    /\ pc = "steps"
    /\ stepIdx < Len(Steps)
    /\ IF IterExhausted(ys)
       THEN /\ pc' = "aborted"
            /\ err' = "StopIteration"
            /\ UNCHANGED <<ys, y, pulled, canvas, stepIdx>>
       ELSE /\ y' = IterValue(ys)
            /\ ys' = IterAdvance(ys)
            /\ pulled' = Append(pulled, IterValue(ys))
            /\ canvas' = Render(canvas, Steps[stepIdx + 1], IterValue(ys), wrap)
            /\ IF FillRaises(wrap)
               THEN /\ pc' = "aborted"
                    /\ err' = "ValueError"
                    /\ UNCHANGED stepIdx
               ELSE /\ stepIdx' = stepIdx + 1
                    /\ pc' = IF stepIdx + 1 = Len(Steps) THEN "save" ELSE "steps"
                    /\ UNCHANGED err
    /\ UNCHANGED <<wrap, output, lanes, laneIdx, ysList, files, stdout, call>>

\* SaveFig with the failure swallowed: the run goes on to print
SaveFigSwallowed ==
    /\ pc = "save"
    /\ \E ok \in BOOLEAN :
          /\ files' = IF ok THEN files \cup {output} ELSE files
          /\ pc' = "print"
    /\ UNCHANGED <<wrap, output, lanes, laneIdx, canvas, ysList, ys, y,
                   stepIdx, pulled, stdout, err, call>>

\* SaveFig run between the steps as well
SaveFigEarly ==
    /\ pc \in {"steps", "save"}
    /\ files' = files \cup {output}
    /\ pc' = IF pc = "save" THEN "print" ELSE pc
    /\ UNCHANGED <<wrap, output, lanes, laneIdx, canvas, ysList, ys, y,
                   stepIdx, pulled, stdout, err, call>>

\* line 111: fig.savefig(output, ...) writes the document or raises
SaveFig ==
    /\ pc = "save"
    /\ \E ok \in BOOLEAN :
          IF ok
          THEN /\ files' = files \cup {output}
               /\ pc' = "print"
               /\ UNCHANGED err
          ELSE /\ pc' = "aborted"
               /\ err' = "OSError"
               /\ UNCHANGED files
    /\ UNCHANGED <<wrap, output, lanes, laneIdx, canvas, ysList, ys, y,
                   stepIdx, pulled, stdout, call>>

\* line 112: print(f"Saved: {output}")
PrintSaved ==
    /\ pc = "print"
    /\ stdout' = Append(stdout, [saved |-> output])
    /\ pc' = "done"
    /\ UNCHANGED <<wrap, output, lanes, laneIdx, canvas, ysList, ys, y,
                   stepIdx, pulled, files, err, call>>

Next == CreateFigure \/ DrawLane \/ MakeSlots \/ Step \/ SaveFig \/ PrintSaved

Spec == Init /\ [][Next]_vars

----------------------------------------------------------------------------
(* The same run over a shorter slot list: line 63 with only the first n    *)
(* entries of the literal, every other line unchanged.  With fewer than    *)
(* 23 entries the steps of lines 73-109 exhaust the iterator.              *)

InitAlloc ==
    /\ pc = "start"
    /\ wrap = 50
    /\ output = "postcode-flow.pdf"
    /\ lanes = <<>>
    /\ laneIdx = 0
    /\ canvas = <<>>
    /\ ysList \in {SubSeq(YS, 1, n) : n \in 0..Len(YS)}
    /\ ys = <<>>
    /\ y = 0
    /\ stepIdx = 0
    /\ pulled = <<>>
    /\ files = {}
    /\ stdout = <<>>
    /\ err = "none"
    /\ call = <<>>

SpecAlloc == InitAlloc /\ [][Next]_vars

----------------------------------------------------------------------------
(* box_text called directly, on every short text over a small alphabet     *)

MaxLen == 5
MaxWidth == 3

\* a, b, space, newline, hyphen
Alphabet == {97, 98, SP, NL, HYPHEN}

Texts == UNION {[1..n -> Alphabet] : n \in 0..MaxLen}

InitWrap ==
    /\ pc = "call_box_text"
    /\ wrap \in 0..MaxWidth
    /\ call \in {[x0 |-> x_edge, x1 |-> x_edge, y |-> YS[1], text |-> t] :
                    t \in Texts}
    /\ output = "postcode-flow.pdf"
    /\ lanes = Lanes
    /\ laneIdx = 0
    /\ canvas = <<>>
    /\ ysList = YS
    /\ ys = <<>>
    /\ y = 0
    /\ stepIdx = 0
    /\ pulled = <<>>
    /\ files = {}
    /\ stdout = <<>>
    /\ err = "none"

\* box_text(x, y, text) of lines 46-51
CallBoxText ==
    /\ pc = "call_box_text"
    /\ canvas' = BoxText(canvas, call.x0, call.y, call.text, wrap)
    /\ IF FillRaises(wrap)
       THEN pc' = "aborted" /\ err' = "ValueError"
       ELSE pc' = "returned" /\ UNCHANGED err
    /\ UNCHANGED <<wrap, output, lanes, laneIdx, ysList, ys, y, stepIdx,
                   pulled, files, stdout, call>>

NextWrap == CallBoxText

SpecWrap == InitWrap /\ [][NextWrap]_vars

----------------------------------------------------------------------------
(* arrow called directly for a pair of lanes, then with the lanes swapped  *)

LaneXs == {Lanes[i].x : i \in 1..Len(Lanes)}
SlotYs == {YS[i] : i \in 1..Len(YS)}

InitArrow ==
    /\ pc = "call_arrow"
    /\ wrap \in {10, 50}
    /\ call \in {[x0 |-> a, x1 |-> b, y |-> yy, text |-> Captions[1]] :
                    a \in LaneXs, b \in LaneXs, yy \in SlotYs}
    /\ output = "postcode-flow.pdf"
    /\ lanes = Lanes
    /\ laneIdx = 0
    /\ canvas = <<>>
    /\ ysList = YS
    /\ ys = <<>>
    /\ y = 0
    /\ stepIdx = 0
    /\ pulled = <<>>
    /\ files = {}
    /\ stdout = <<>>
    /\ err = "none"

\* arrow(xA, xB, y, text) of lines 53-60
CallArrow ==
    /\ pc = "call_arrow"
    /\ canvas' = Arrow(canvas, call.x0, call.x1, call.y, call.text, wrap)
    /\ pc' = "call_arrow_swapped"
    /\ UNCHANGED <<wrap, output, lanes, laneIdx, ysList, ys, y, stepIdx,
                   pulled, files, stdout, err, call>>

\* arrow(xB, xA, y, text)
CallArrowSwapped ==
    /\ pc = "call_arrow_swapped"
    /\ canvas' = Arrow(canvas, call.x1, call.x0, call.y, call.text, wrap)
    /\ pc' = "returned"
    /\ UNCHANGED <<wrap, output, lanes, laneIdx, ysList, ys, y, stepIdx,
                   pulled, files, stdout, err, call>>

NextArrow == CallArrow \/ CallArrowSwapped

SpecArrow == InitArrow /\ [][NextArrow]_vars

----------------------------------------------------------------------------
(* Properties                                                              *)

\* the program positions before the iterator exists
BeforeSlots == {"start", "lanes", "slots"}

\* every slot of the iterator: those returned, then those still to come
AllSlots == pulled \o ys

\* number of arrow steps among the first k steps
NumArrows(k) == Cardinality({i \in 1..k : Steps[i].kind = "arrow"})

\* index in canvas of the first artist of step i: after two artists per
\* lane, one per earlier step and one more per earlier arrow
StepStart(i) == 2 * Len(lanes) + (i - 1) + NumArrows(i - 1) + 1

\* x positions of the lane guide-lines on the canvas
DrawnLaneXs ==
    {canvas[i].from[1] : i \in {j \in 1..Len(canvas) : canvas[j].kind = "plot"}}

\* C1 as stated: the number of slots equals the number of steps, so when
\* the last step has been rendered every slot has been consumed and none is
\* left over.
C1_SlotsEqualSteps ==
    stepIdx = Len(Steps) => (ys = <<>> /\ Len(AllSlots) = Len(Steps))

\* C1 amended: there is one slot more than there are steps (24 and 23), so
\* when the last step has been rendered exactly one slot, the last one
\* (0.08), is left unconsumed.
C1_OneSlotSpare ==
    /\ pc \notin BeforeSlots => Len(AllSlots) = Len(Steps) + 1
    /\ stepIdx = Len(Steps) => (Len(pulled) = Len(Steps) /\ ys = <<800>>)

C1_LastStepRendered == stepIdx = Len(Steps) /\ pc = "done"

\* C2: the y pulled for a step is strictly greater than the y pulled for
\* the step after it (so no two steps share a y), whatever the kinds of the
\* steps; the local y is the last value pulled.
C2_StrictlyDescending ==
    /\ \A i \in 1..Len(pulled) : \A j \in 1..Len(pulled) :
          i < j => pulled[i] > pulled[j]
    /\ pulled # <<>> => y = pulled[Len(pulled)]

C2_AllStepsPulled ==
    /\ stepIdx = Len(Steps)
    /\ Len(pulled) = Len(Steps)
    /\ \E i \in 1..(Len(Steps) - 1) : Steps[i].kind # Steps[i + 1].kind

\* C3 as stated: the slots are an evenly spaced grid, every two consecutive
\* slots differing by the same step, so that the number of slots is
\* floor((top - bottom) / spacing) + 1.
C3_EvenGrid ==
    pc \notin BeforeSlots =>
        LET a == AllSlots
        IN  /\ \A i \in 1..(Len(a) - 1) : a[i] - a[i + 1] = a[1] - a[2]
            /\ Len(a) = (a[1] - a[Len(a)]) \div (a[1] - a[2]) + 1

\* C3 amended: the slots are strictly decreasing in two evenly spaced runs,
\* 0.03 apart from 0.96 down to 0.84 and 0.04 apart from 0.84 down to 0.08,
\* so that the number of slots is
\* floor((0.96 - 0.84) / 0.03) + floor((0.84 - 0.08) / 0.04) + 1 = 24.
C3_TwoSpacings ==
    pc \notin BeforeSlots =>
        LET a == AllSlots
        IN  /\ Len(a) = 24
            /\ a[1] = 9600 /\ a[5] = 8400 /\ a[Len(a)] = 800
            /\ \A i \in 1..4 : a[i] - a[i + 1] = 300
            /\ \A i \in 5..(Len(a) - 1) : a[i] - a[i + 1] = 400
            /\ Len(a) = (a[1] - a[5]) \div 300 + (a[5] - a[Len(a)]) \div 400 + 1

C3_SlotsMade == pc = "steps" /\ pulled = <<>> /\ Len(ys) = Len(YS)

\* C4: with S slots the first S calls of next() succeed and each returns a
\* slot not returned before; the call after them fails with StopIteration
\* instead of returning or reusing a y, the step that made it draws
\* nothing, and the run ends there with nothing saved or printed.
C4_State ==
    /\ Len(pulled) <= Len(ysList)
    /\ \A i \in 1..Len(pulled) : pulled[i] = ysList[i]
    /\ \A i \in 1..Len(pulled) : \A j \in 1..Len(pulled) :
          i # j => pulled[i] # pulled[j]
    /\ err = "StopIteration" =>
          /\ pc = "aborted"
          /\ Len(pulled) = Len(ysList)
          /\ stepIdx = Len(ysList)
          /\ Len(canvas) = StepStart(stepIdx + 1) - 1
          /\ files = {}
          /\ stdout = <<>>

C4_Call ==
    /\ (pc = "steps" /\ Len(pulled) < Len(ysList)) =>
          (pulled' = Append(pulled, ysList[Len(pulled) + 1]) /\ err' = "none")
    /\ (pc = "steps" /\ Len(pulled) >= Len(ysList)) =>
          /\ pc' = "aborted"
          /\ err' = "StopIteration"
          /\ canvas' = canvas
          /\ pulled' = pulled
          /\ y' = y

\* C4: the allocator is forward-only and bounded: C4_State holds in every
\* state and every call of next() behaves as C4_Call says.
C4_ForwardOnlyBounded == [](C4_State) /\ [][C4_Call]_vars

C4_Exhausted ==
    /\ err = "StopIteration"
    /\ Len(ysList) >= 1
    /\ Len(pulled) = Len(ysList)

\* C5: the output file is written only after every step has been rendered,
\* the message naming the output path is printed only after the write has
\* succeeded, a run that ends in an exception prints nothing, and a failure
\* during the steps leaves no file written.
C5_AllOrNothing ==
    /\ files # {} => (files = {output} /\ stepIdx = Len(Steps))
    /\ stdout # <<>> => (stdout = <<[saved |-> output]>> /\ output \in files)
    /\ pc = "aborted" => (stdout = <<>> /\ err # "none")
    /\ (pc = "aborted" /\ err # "OSError") => files = {}
    /\ pc = "done" => (output \in files /\ stdout # <<>> /\ err = "none")

C5_StepFailed ==
    /\ pc = "aborted"
    /\ err = "ValueError"
    /\ stepIdx < Len(Steps)
    /\ files = {}
    /\ stdout = <<>>

\* C6: every step rendered uses only lanes that were drawn: the two ends
\* of an arrow and the x of an annotation are x positions of lanes of the
\* lanes list, and no arrow starts and ends on the same lane.
C6_RegisteredLanes ==
    /\ pc \notin {"start", "lanes"} =>
          DrawnLaneXs = {lanes[i].x : i \in 1..Len(lanes)}
    /\ \A i \in 1..stepIdx :
          LET a == canvas[StepStart(i)]
          IN  IF Steps[i].kind = "arrow"
              THEN /\ a.kind = "annotate"
                   /\ a.from[1] \in DrawnLaneXs
                   /\ a.to[1] \in DrawnLaneXs
                   /\ a.from[1] # a.to[1]
              ELSE /\ a.kind = "box"
                   /\ a.from[1] \in DrawnLaneXs

C6_AllStepsDrawn == stepIdx = Len(Steps) /\ Cardinality(DrawnLaneXs) = 4

\* C7: arrow(xA, xB, y, text) and arrow(xB, xA, y, text) draw lines with
\* start and end swapped, the arrowhead at xB in the first and at xA in the
\* second, and put the caption box at the same point: x the midpoint of xA
\* and xB, y the arrow's y minus 0.006.
C7_SwappedEndsSameCaption ==
    pc = "returned" =>
        /\ Len(canvas) = 4
        /\ canvas[1].kind = "annotate" /\ canvas[3].kind = "annotate"
        /\ canvas[1].from = canvas[3].to
        /\ canvas[1].to = canvas[3].from
        /\ canvas[1].to = <<call.x1, call.y>>
        /\ canvas[3].to = <<call.x0, call.y>>
        /\ canvas[2].kind = "box"
        /\ canvas[2] = canvas[4]
        /\ 2 * canvas[2].from[1] = call.x0 + call.x1
        /\ call.y - canvas[2].from[2] = 60

C7_BothDrawn ==
    pc = "returned" /\ call.x0 = x_client /\ call.x1 = x_os /\ Len(canvas) = 4

\* text.split("\n")
SplitLines(t) ==
    LET breaks == {i \in 1..Len(t) : t[i] = NL}
        lineOf(i) == Cardinality({j \in breaks : j < i}) + 1
    IN  [k \in 1..(Cardinality(breaks) + 1) |->
            LET idx == {i \in 1..Len(t) : t[i] # NL /\ lineOf(i) = k}
            IN  [m \in 1..Cardinality(idx) |-> t[Min(idx) + m - 1]]]

\* text.split(): the maximal runs without whitespace
Words(t) ==
    LET starts == {i \in 1..Len(t) :
                      ~IsSpace(t[i]) /\ (i = 1 \/ IsSpace(t[i - 1]))}
        wordOf(i) == Cardinality({j \in starts : j <= i})
    IN  [k \in 1..Cardinality(starts) |->
            LET idx == {i \in 1..Len(t) : ~IsSpace(t[i]) /\ wordOf(i) = k}
            IN  [m \in 1..Cardinality(idx) |-> t[Min(idx) + m - 1]]]

\* " ".join(text.split()): the whitespace-normalized text
Normalized(t) == Join(Words(t), <<SP>>)

\* the text without its whitespace
NonSpace(t) == SelectSeq(t, LAMBDA c : ~IsSpace(c))

\* the lines of the text drawn by the box_text call, and their rejoining
WrappedLines == SplitLines(canvas[1].s)
Rejoined == Join(WrappedLines, <<SP>>)

C9_OnePullOneRender ==
    (err = "none" /\ pc \notin BeforeSlots) =>
        /\ Len(pulled) = stepIdx
        /\ Len(ys) = Len(ysList) - stepIdx
        /\ Len(canvas) = StepStart(stepIdx + 1) - 1
        /\ \A i \in 1..stepIdx :
              LET at == StepStart(i)
                  s == Steps[i]
              IN  IF s.kind = "arrow"
                  THEN /\ canvas[at].kind = "annotate"
                       /\ canvas[at].from = <<s.x0, pulled[i]>>
                       /\ canvas[at].to = <<s.x1, pulled[i]>>
                       /\ canvas[at + 1].kind = "box"
                       /\ canvas[at + 1].s = Fill(s.text, wrap)
                  ELSE /\ canvas[at].kind = "box"
                       /\ canvas[at].from = <<s.x0, pulled[i]>>
                       /\ canvas[at].s = Fill(s.text, wrap)
        /\ stepIdx >= 3 =>
              /\ canvas[9].kind = "annotate" /\ canvas[9].to = <<3700, 9600>>
              /\ canvas[10].kind = "box"
              /\ canvas[11].kind = "box" /\ canvas[11].from = <<3700, 9300>>
              /\ canvas[12].kind = "annotate" /\ canvas[12].to = <<1000, 9000>>
              /\ canvas[13].kind = "box"

C9_ThreeStepsDone == stepIdx = 3 /\ Len(pulled) = 3 /\ Len(canvas) = 13

PhaseRank(p) ==
    CASE p = "start" -> 0
      [] p = "lanes" -> 1
      [] p = "slots" -> 2
      [] p = "steps" -> 3
      [] p = "save" -> 4
      [] p = "print" -> 5
      [] p = "done" -> 6
      [] p = "aborted" -> 7

\* C10: the run never goes back to an earlier phase; the first step is
\* rendered only when every lane has been drawn; the lanes and their
\* drawing do not change once a step has been rendered; steps are taken
\* one at a time in list order; the file is written only after the last
\* step, and nothing is drawn after it.
C10_Step ==
    /\ PhaseRank(pc') >= PhaseRank(pc)
    /\ pulled' # pulled =>
          /\ lanes = Lanes /\ laneIdx = Len(lanes)
          /\ Len(canvas) >= 2 * Len(lanes)
          /\ \A i \in 1..Len(lanes) :
                <<canvas[2 * i - 1], canvas[2 * i]>> = DrawLaneArtists(lanes[i])
    /\ pulled # <<>> =>
          /\ lanes' = lanes /\ laneIdx' = laneIdx
          /\ SubSeq(canvas', 1, Len(canvas)) = canvas
    /\ stepIdx' # stepIdx => (stepIdx' = stepIdx + 1 /\ pc = "steps")
    /\ files' # files =>
          (pc = "save" /\ stepIdx = Len(Steps) /\ stepIdx' = stepIdx)
    /\ files # {} => canvas' = canvas

\* C10: every step of a run keeps the fixed order of the phases (C10_Step).
C10_PhaseOrder == [][C10_Step]_vars

C10_Exported ==
    /\ pc = "done"
    /\ files = {output}
    /\ stepIdx = Len(Steps)
    /\ laneIdx = Len(Lanes)

====
